---- MODULE Spec2Model ----
(***************************************************************************)
(* gemini_cli.py: the file collector (get_files_from_paths) and the main   *)
(* routine that assembles the prompt, then either prints the dry-run       *)
(* summary or configures the API client, sends the prompt and delivers the *)
(* reply.                                                                  *)
(*                                                                         *)
(* A Python str is a sequence of characters, each written as a one-element *)
(* TLA+ string; the two non-ASCII characters used are written by their     *)
(* code point ("U+00E9", "U+20AC").  An optional argument (None or a       *)
(* value) is <<>> or <<value>>.                                            *)
(***************************************************************************)
EXTENDS Integers, Sequences, FiniteSets, TLC

\* ------------------------------------------------------------------ bounds
\* Most path arguments (-f and -d together) on one command line.
MaxPathArgs == 3
\* Largest --max-bytes value tried.
MaxBudget == 2

\* ---------------------------------------------------------------- strings
UpperChars == <<"A","B","C","D","E","F","G","H","I","J","K","L","M",
                "N","O","P","Q","R","S","T","U","V","W","X","Y","Z">>
LowerChars == <<"a","b","c","d","e","f","g","h","i","j","k","l","m",
                "n","o","p","q","r","s","t","u","v","w","x","y","z">>

LowerOf ==
  [c \in { UpperChars[k] : k \in 1..Len(UpperChars) } |->
     LowerChars[CHOOSE k \in 1..Len(UpperChars) : UpperChars[k] = c]]

\* str.lower(), character by character.
LowerChar(c) == IF c \in DOMAIN LowerOf THEN LowerOf[c] ELSE c

RECURSIVE Lower(_)
Lower(s) == IF s = <<>> THEN <<>> ELSE <<LowerChar(Head(s))>> \o Lower(Tail(s))

\* Bytes one character takes in UTF-8.
Utf8Width(c) == IF c = "U+20AC" THEN 3 ELSE IF c = "U+00E9" THEN 2 ELSE 1

\* len(content.encode('utf-8'))
RECURSIVE Utf8Size(_)
Utf8Size(s) == IF s = <<>> THEN 0 ELSE Utf8Width(Head(s)) + Utf8Size(Tail(s))

\* str.rfind of one character: the last index holding c, 0 when there is none
\* (indices from 1).
RECURSIVE RFindFrom(_, _, _)
RFindFrom(s, c, k) ==
  IF k = 0 THEN 0 ELSE IF s[k] = c THEN k ELSE RFindFrom(s, c, k - 1)
RFind(s, c) == RFindFrom(s, c, Len(s))

\* os.path.basename: what follows the last "/".
Basename(p) == SubSeq(p, RFind(p, "/") + 1, Len(p))

\* os.path.splitext(name)[1]: from the last "." on, unless only dots precede it.
SplitExt(name) ==
  LET dot == RFind(name, ".")
  IN  IF dot > 0 /\ \E k \in 1..(dot - 1) : name[k] # "."
      THEN SubSeq(name, dot, Len(name))
      ELSE <<>>

\* os.path.join(root, name)
PathJoin(root, name) == root \o <<"/">> \o name

\* --------------------------------------------------------- the file system
N_a_txt   == <<"a",".","t","x","t">>
N_B_PNG   == <<"B",".","P","N","G">>
N_c_png   == <<"c",".","p","n","g">>
N_e_txt   == <<"e",".","t","x","t">>
N_big_txt == <<"b","i","g",".","t","x","t">>
N_io_txt  == <<"i","o",".","t","x","t">>
N_dotpng  == <<".","p","n","g">>
N_empty   == <<"e","m","p","t","y">>
N_locked  == <<"l","o","c","k","e","d">>
N_nope    == <<"n","o","p","e">>
N_d       == <<"d">>
N_e       == <<"e">>
N_s       == <<"s">>
N_nodir   == <<"n","o","d","i","r">>

\* Regular files: the outcome of the 1024-byte probe ("clean", "nul": a NUL
\* byte in the chunk, "error": open or read failed), the outcome of the text
\* read ("ok", "decode": UnicodeDecodeError, "oserror": another exception)
\* and the decoded content.
FileTable ==
  { [path |-> N_a_txt, probe |-> "clean", read |-> "ok",
     content |-> <<"h","i">>],
    [path |-> PathJoin(N_d, N_B_PNG), probe |-> "clean", read |-> "ok",
     content |-> <<"U+00E9">>],
    [path |-> PathJoin(N_d, N_c_png), probe |-> "nul", read |-> "ok",
     content |-> <<"P","N","G">>],
    [path |-> PathJoin(N_d, N_a_txt), probe |-> "clean", read |-> "ok",
     content |-> <<"a","\n","\"">>],
    [path |-> PathJoin(PathJoin(N_d, N_s), N_e_txt), probe |-> "clean",
     read |-> "decode", content |-> <<>>],
    [path |-> PathJoin(N_e, N_big_txt), probe |-> "clean", read |-> "ok",
     content |-> <<"U+20AC","x">>],
    [path |-> PathJoin(N_e, N_empty), probe |-> "clean", read |-> "ok",
     content |-> <<>>],
    [path |-> PathJoin(N_e, N_locked), probe |-> "error", read |-> "oserror",
     content |-> <<>>],
    [path |-> PathJoin(N_e, N_io_txt), probe |-> "clean", read |-> "oserror",
     content |-> <<>>],
    [path |-> PathJoin(N_e, N_dotpng), probe |-> "clean", read |-> "ok",
     content |-> <<"x","y">>] }

\* Directories: the names a listing yields, files and subdirectories.
DirTable ==
  { [path |-> N_d, files |-> <<N_c_png, N_B_PNG, N_a_txt>>, dirs |-> <<N_s>>],
    [path |-> PathJoin(N_d, N_s), files |-> <<N_e_txt>>, dirs |-> <<>>],
    [path |-> N_e,
     files |-> <<N_big_txt, N_empty, N_locked, N_io_txt, N_dotpng>>,
     dirs |-> <<>>] }

FilePaths == { r.path : r \in FileTable }

\* os.path.isfile / os.path.isdir
IsFile(p) == \E r \in FileTable : r.path = p
IsDir(p) == \E r \in DirTable : r.path = p

FileAt(p) == CHOOSE r \in FileTable : r.path = p
DirAt(p) == CHOOSE r \in DirTable : r.path = p

\* The paths os.walk(top) hands to process_file, in order: the files of top,
\* then those of each subdirectory, top-down.
RECURSIVE WalkFiles(_)
RECURSIVE WalkDirs(_, _)
WalkFiles(top) ==
  LET here == DirAt(top)
  IN  [k \in 1..Len(here.files) |-> PathJoin(top, here.files[k])]
      \o WalkDirs(top, here.dirs)
WalkDirs(top, names) ==
  IF names = <<>> THEN <<>>
  ELSE WalkFiles(PathJoin(top, Head(names))) \o WalkDirs(top, Tail(names))

\* ------------------------------------------------------------------- state
VARIABLES
  question,           \* args.question
  file_paths,         \* args.file
  dir_paths,          \* args.dir
  dry_run,            \* args.dry_run
  output,             \* args.output: <<>> or <<path>>
  raw_exclude_ext,    \* args.exclude_ext, as typed
  exclude_names,      \* args.exclude_name
  max_bytes,          \* args.max_bytes: <<>> or <<n>>
  exclude_exts,       \* get_files_from_paths: the lower-cased extension list
  total_bytes,        \* get_files_from_paths: the running total
  formatted_contents, \* get_files_from_paths: the blocks
  included_files,     \* get_files_from_paths: the paths
  i,                  \* next index of the loop over file_paths
  d,                  \* next index of the loop over dir_paths
  walk,               \* what os.walk has still to yield for the current root
  pc,                 \* position in main
  final_prompt,       \* main: the payload
  response_text,      \* main: the reply's text
  stdout,             \* every print so far: [kind, arg]
  summary,            \* the dry-run summary printed: <<>> or <<[count, total, listing]>>
  opens,              \* how often each file was opened for reading
  api_key,            \* configure_api: "unread", then what os.getenv gave
  configured,         \* genai.configure: "uncalled", "ok" or "raised"
  api_calls,          \* generate_content calls made
  written,            \* the output file: <<>> or <<text>>
  exit_status,        \* <<>> while running, then <<0>> or <<1>>
  log                 \* history: one record per candidate handled, in order

vars == <<question, file_paths, dir_paths, dry_run, output, raw_exclude_ext,
          exclude_names, max_bytes, exclude_exts, total_bytes,
          formatted_contents, included_files, i, d, walk, pc, final_prompt,
          response_text, stdout, summary, opens, api_key, configured,
          api_calls, written, exit_status, log>>

argv == <<question, file_paths, dir_paths, dry_run, output, raw_exclude_ext,
          exclude_names, max_bytes>>
collected == <<total_bytes, formatted_contents, included_files>>
mainvars == <<final_prompt, response_text, summary, api_key, configured,
              api_calls, written, exit_status>>

\* ------------------------------------------------------ the inputs explored
SeqsUpTo(S, n) == UNION { [1..k -> S] : k \in 0..n }

ExplicitArgs == { N_a_txt, N_nope, N_d, PathJoin(N_e, N_big_txt) }
DirArgs == { N_d, N_e, N_nodir }
Budgets == { <<>> } \cup { <<n>> : n \in 0..MaxBudget }

\* (--exclude-ext, --exclude-name) pairs.
Exclusions ==
  { [ext |-> {}, name |-> {}],
    [ext |-> { <<".","P","N","G">> }, name |-> {}],
    [ext |-> { <<"p","n","g">>, <<".","t","x","t">> },
     name |-> { <<"B",".","p","n","g">>, N_locked }],
    [ext |-> { <<>> }, name |-> {}] }

Q_empty == <<>>
Q_hi == <<"H","i","?">>
OutPath == <<"o","u","t">>
ReplyText == <<"o","k">>

InitLocals ==
  /\ exclude_exts = {}
  /\ total_bytes = 0
  /\ formatted_contents = <<>>
  /\ included_files = <<>>
  /\ i = 1
  /\ d = 1
  /\ walk = <<>>
  /\ pc = "start"
  /\ final_prompt = <<>>
  /\ response_text = <<>>
  /\ stdout = <<>>
  /\ summary = <<>>
  /\ opens = [p \in FilePaths |-> 0]
  /\ api_key = "unread"
  /\ configured = "uncalled"
  /\ api_calls = 0
  /\ written = <<>>
  /\ exit_status = <<>>
  /\ log = <<>>

\* Command lines that vary what the collector sees.
InitCollect ==
  /\ question = Q_hi
  /\ output = <<>>
  /\ dry_run \in BOOLEAN
  /\ file_paths \in SeqsUpTo(ExplicitArgs, MaxPathArgs)
  /\ dir_paths \in SeqsUpTo(DirArgs, MaxPathArgs - Len(file_paths))
  /\ max_bytes \in Budgets
  /\ \E x \in Exclusions : raw_exclude_ext = x.ext /\ exclude_names = x.name

\* Command lines that vary what main does with the collection.
InitMain ==
  /\ question \in { Q_empty, Q_hi }
  /\ output \in { <<>>, <<OutPath>> }
  /\ dry_run \in BOOLEAN
  /\ file_paths \in SeqsUpTo({ N_a_txt, N_nope }, MaxPathArgs - 1)
  /\ dir_paths \in SeqsUpTo({ N_d }, 1)
  /\ max_bytes = <<>>
  /\ raw_exclude_ext = {}
  /\ exclude_names = {}

Init == InitLocals /\ (InitCollect \/ InitMain)

\* ---------------------------------------------------------- the collector
\* Variant: the entries are kept as typed, lower() forgotten.
NormalizeExtsAsTyped(exts) == exts

\* line 53: exclude_exts = [ext.lower() for ext in (exclude_exts or [])]
NormalizeExts(exts) == { Lower(e) : e \in exts }

\* Variant: only the name is tested, the extension test forgotten.
ShouldExcludeByNameOnly(file_path) == Basename(file_path) \in exclude_names

\* should_exclude (lines 56-60)
ShouldExclude(file_path) ==
  LET file_name == Basename(file_path)
      file_ext == Lower(SplitExt(file_name))
  IN  file_ext \in exclude_exts \/ file_name \in exclude_names

\* Variant: the probe never reports a binary file.
IsBinaryFileNever(file_path) == FALSE

\* is_binary_file (lines 36-43)
IsBinaryFile(file_path) == FileAt(file_path).probe # "clean"

\* Variant: the file's own size is compared, the running total forgotten.
OverBudgetOwnSize(content_size) ==
  /\ max_bytes # <<>>
  /\ max_bytes[1] # 0
  /\ content_size > max_bytes[1]

\* line 78: if max_bytes and (total_bytes + content_size > max_bytes)
OverBudget(content_size) ==
  /\ max_bytes # <<>>
  /\ max_bytes[1] # 0
  /\ total_bytes + content_size > max_bytes[1]

\* Variant: "=" for "+=".
NewTotalAssigned(content_size) == content_size

\* line 82: total_bytes += content_size
NewTotal(content_size) == total_bytes + content_size

\* Variant: the item is put first.
Prepended(list, item) == <<item>> \o list

\* lines 83-84: list.append
Appended(list, item) == Append(list, item)

\* Variant: the block is labelled with the whole path, basename forgotten.
FormatFileContentFullPath(file_path, content) ==
  <<"F","i","l","e",":"," ">> \o file_path
    \o <<"\n","\"","\"","\"","\n">> \o content \o <<"\n","\"","\"","\"">>

\* format_file_content (lines 32-34)
FormatFileContent(file_path, content) ==
  <<"F","i","l","e",":"," ">> \o Basename(file_path)
    \o <<"\n","\"","\"","\"","\n">> \o content \o <<"\n","\"","\"","\"">>

Printed(kind, arg) == Append(stdout, [kind |-> kind, arg |-> arg])
Logged(path, root, outcome, size) ==
  Append(log, [path |-> path, root |-> root, outcome |-> outcome, size |-> size])

\* Variant: the file is opened once more, to measure it.
OpenedOnceMore(path, n) == [opens EXCEPT ![path] = @ + n + 1]

\* lines 39 and 74: the file is opened by the probe (n = 1), or by the probe
\* and then by the text read (n = 2).
Opened(path, n) == [opens EXCEPT ![path] = @ + n]

\* process_file (lines 62-88) on an existing regular file; root is 0 for an
\* explicit path and the index of the directory argument otherwise.
ProcessFile(file_path, root) ==
  LET f == FileAt(file_path)
      content_size == Utf8Size(f.content)
  IN  IF ShouldExclude(file_path)
      THEN /\ log' = Logged(file_path, root, "excluded", 0)
           /\ UNCHANGED <<collected, stdout, opens>>
      ELSE IF IsBinaryFile(file_path)
      THEN /\ stdout' = Printed("warn_binary", file_path)
           /\ opens' = Opened(file_path, 1)
           /\ log' = Logged(file_path, root, "binary", 0)
           /\ UNCHANGED collected
      ELSE IF f.read = "decode"
      THEN /\ stdout' = Printed("warn_encoding", file_path)
           /\ opens' = Opened(file_path, 2)
           /\ log' = Logged(file_path, root, "decode", 0)
           /\ UNCHANGED collected
      ELSE IF f.read = "oserror"
      THEN /\ stdout' = Printed("error_reading", file_path)
           /\ opens' = Opened(file_path, 2)
           /\ log' = Logged(file_path, root, "error", 0)
           /\ UNCHANGED collected
      ELSE IF OverBudget(content_size)
      THEN /\ stdout' = Printed("warn_budget", file_path)
           /\ opens' = Opened(file_path, 2)
           /\ log' = Logged(file_path, root, "budget", content_size)
           /\ UNCHANGED collected
      ELSE /\ total_bytes' = NewTotal(content_size)
           /\ formatted_contents' =
                Appended(formatted_contents, FormatFileContent(file_path, f.content))
           /\ included_files' = Appended(included_files, file_path)
           /\ opens' = Opened(file_path, 2)
           /\ log' = Logged(file_path, root, "included", content_size)
           /\ UNCHANGED stdout

\* lines 50-54: the collector's locals are set up.
EnterCollect ==
  /\ pc = "start"
  /\ pc' = "collect"
  /\ exclude_exts' = NormalizeExts(raw_exclude_ext)
  /\ UNCHANGED <<argv, collected, i, d, walk, mainvars, stdout, opens, log>>

\* lines 90-95: one turn of the loop over the explicit paths.
ProcessFileArg ==
  /\ pc = "collect"
  /\ i <= Len(file_paths)
  /\ i' = i + 1
  /\ IF ~IsFile(file_paths[i])
     THEN /\ stdout' = Printed("warn_notfound", file_paths[i])
          /\ log' = Logged(file_paths[i], 0, "notfound", 0)
          /\ UNCHANGED <<collected, opens>>
     ELSE ProcessFile(file_paths[i], 0)
  /\ UNCHANGED <<argv, exclude_exts, d, walk, pc, mainvars>>

\* lines 97-102: the next directory argument is checked and its walk begun.
EnterDirRoot ==
  /\ pc = "collect"
  /\ i > Len(file_paths)
  /\ walk = <<>>
  /\ d <= Len(dir_paths)
  /\ d' = d + 1
  /\ IF ~IsDir(dir_paths[d])
     THEN /\ stdout' = Printed("warn_nodir", dir_paths[d])
          /\ log' = Logged(dir_paths[d], d, "nodir", 0)
          /\ walk' = <<>>
     ELSE /\ walk' = WalkFiles(dir_paths[d])
          /\ UNCHANGED <<stdout, log>>
  /\ UNCHANGED <<argv, exclude_exts, collected, i, pc, mainvars, opens>>

\* lines 103-105: the next file of the walk is processed.
ProcessWalkFile ==
  /\ pc = "collect"
  /\ walk # <<>>
  /\ walk' = Tail(walk)
  /\ ProcessFile(Head(walk), d - 1)
  /\ UNCHANGED <<argv, exclude_exts, i, d, pc, mainvars>>

CollectionOver ==
  /\ i > Len(file_paths)
  /\ walk = <<>>
  /\ d > Len(dir_paths)

\* ------------------------------------------------------------------- main
\* "\n\n".join(blocks)
RECURSIVE JoinBlocks(_)
JoinBlocks(blocks) ==
  IF blocks = <<>> THEN <<>>
  ELSE IF Len(blocks) = 1 THEN Head(blocks)
  ELSE Head(blocks) \o <<"\n","\n">> \o JoinBlocks(Tail(blocks))

\* lines 123, 133-136
AssemblePrompt(q, blocks) ==
  IF blocks # <<>> THEN q \o (<<"\n","\n">> \o JoinBlocks(blocks)) ELSE q

\* lines 107, 133-136: the collector returns and the payload is built.
ReturnAndAssemble ==
  /\ pc = "collect"
  /\ CollectionOver
  /\ final_prompt' = AssemblePrompt(question, formatted_contents)
  /\ pc' = "assembled"
  /\ UNCHANGED <<argv, exclude_exts, collected, i, d, walk, response_text,
                 stdout, summary, opens, api_key, configured, api_calls,
                 written, exit_status, log>>

RECURSIVE SumSizes(_)
SumSizes(paths) ==
  IF paths = <<>> THEN 0
  ELSE Utf8Size(FileAt(Head(paths)).content) + SumSizes(Tail(paths))

RECURSIVE OpenedAll(_, _)
OpenedAll(counts, paths) ==
  IF paths = <<>> THEN counts
  ELSE OpenedAll([counts EXCEPT ![Head(paths)] = @ + 1], Tail(paths))

\* lines 138-147: the prompt and the summary are printed; every included file
\* is read again for its size.
DryRunSummary ==
  /\ pc = "assembled"
  /\ dry_run
  /\ stdout' = Printed("dry_prompt", final_prompt)
  /\ opens' = OpenedAll(opens, included_files)
  /\ summary' = << [count |-> Len(included_files),
                    total |-> SumSizes(included_files),
                    listing |-> included_files] >>
  /\ pc' = "done"
  /\ exit_status' = <<0>>
  /\ UNCHANGED <<argv, exclude_exts, collected, i, d, walk, final_prompt,
                 response_text, api_key, configured, api_calls, written, log>>

\* Variant: "if api_key is None", which lets the empty key through.
KeyMissingNoneOnly(key) == key = "absent"

\* line 23: if not api_key (None and "" are both false)
KeyMissing(key) == key \in { "absent", "empty" }

\* configure_api (lines 18-30, called at 149): the key is read from the
\* environment and the client configured; either may fail, and then exit(1).
ConfigureApi ==
  /\ pc = "assembled"
  /\ ~dry_run
  /\ \E key \in { "absent", "empty", "present" }, conf \in { "ok", "raised" } :
       /\ api_key' = key
       /\ IF KeyMissing(key)
          THEN /\ stdout' = Printed("error_no_key", <<>>)
               /\ pc' = "done"
               /\ exit_status' = <<1>>
               /\ UNCHANGED configured
          ELSE IF conf = "raised"
          THEN /\ stdout' = Printed("error_configure", <<>>)
               /\ configured' = conf
               /\ pc' = "done"
               /\ exit_status' = <<1>>
          ELSE /\ configured' = conf
               /\ pc' = "configured"
               /\ UNCHANGED <<stdout, exit_status>>
  /\ UNCHANGED <<argv, exclude_exts, collected, i, d, walk, final_prompt,
                 response_text, summary, opens, api_calls, written, log>>

CouldNotExtract == <<"E","r","r","o","r">>

\* lines 151-166 and 179-180: the request is sent and the reply's text taken.
GenerateContent ==
  /\ pc = "configured"
  /\ \E reply \in { "model_raises", "call_raises", "parts", "text", "neither" } :
       IF reply = "model_raises"
       THEN /\ stdout' = Printed("error_api", <<>>)
            /\ pc' = "done"
            /\ exit_status' = <<0>>
            /\ UNCHANGED <<api_calls, response_text>>
       ELSE IF reply = "call_raises"
       THEN /\ stdout' = Append(Printed("sending", <<>>),
                                [kind |-> "error_api", arg |-> <<>>])
            /\ api_calls' = api_calls + 1
            /\ pc' = "done"
            /\ exit_status' = <<0>>
            /\ UNCHANGED response_text
       ELSE /\ api_calls' = api_calls + 1
            /\ response_text' = IF reply = "neither" THEN CouldNotExtract
                                ELSE ReplyText
            /\ stdout' = IF reply = "neither"
                         THEN Append(Printed("sending", <<>>),
                                     [kind |-> "raw_response", arg |-> <<>>])
                         ELSE Printed("sending", <<>>)
            /\ pc' = "responded"
            /\ UNCHANGED exit_status
  /\ UNCHANGED <<argv, exclude_exts, collected, i, d, walk, final_prompt,
                 summary, opens, api_key, configured, written, log>>

\* lines 168-177: the reply is saved to the output file, or printed.
DeliverResponse ==
  /\ pc = "responded"
  /\ IF output # <<>>
     THEN \E saved \in BOOLEAN :
            IF saved
            THEN /\ written' = <<response_text>>
                 /\ stdout' = Printed("saved", output[1])
            ELSE /\ stdout' = Append(Printed("error_saving", output[1]),
                                     [kind |-> "response", arg |-> response_text])
                 /\ UNCHANGED written
     ELSE /\ stdout' = Printed("response", response_text)
          /\ UNCHANGED written
  /\ pc' = "done"
  /\ exit_status' = <<0>>
  /\ UNCHANGED <<argv, exclude_exts, collected, i, d, walk, final_prompt,
                 response_text, summary, opens, api_key, configured, api_calls,
                 log>>

Next ==
  \/ EnterCollect
  \/ ProcessFileArg
  \/ EnterDirRoot
  \/ ProcessWalkFile
  \/ ReturnAndAssemble
  \/ DryRunSummary
  \/ ConfigureApi
  \/ GenerateContent
  \/ DeliverResponse

Spec == Init /\ [][Next]_vars

\* ----------------------------------------------------------------- claims
Collecting == pc \in { "start", "collect" }

\* The log's records of one outcome, and their paths.
IsIncluded(rec) == rec.outcome = "included"
PathsOf(recs) == [k \in 1..Len(recs) |-> recs[k].path]
RECURSIVE SizesOf(_)
SizesOf(recs) == IF recs = <<>> THEN 0 ELSE Head(recs).size + SizesOf(Tail(recs))

\* The record is of a candidate that reached process_file.
ReachedProcessFile(rec) == rec.outcome \notin { "notfound", "nodir" }

\* How many records of the log are about path p and satisfy Test.
Times(p, Test(_)) ==
  Cardinality({ k \in 1..Len(log) : log[k].path = p /\ Test(log[k]) })

\* C1: with --max-bytes given (any value >= 0, 0 included), the included
\* files' encoded sizes never add up to more than max_bytes.
C1_BudgetNeverExceeded ==
  max_bytes # <<>> => SumSizes(included_files) <= max_bytes[1]

\* C2, as claimed: once a file is skipped for the budget, no file processed
\* later is included.
C2_NothingIncludedAfterBudgetSkip ==
  \A j, k \in 1..Len(log) :
    j < k /\ log[j].outcome = "budget" => log[k].outcome # "included"

\* C2, amended: once a file is skipped for the budget, no later file that is
\* at least as large is included; a later file is included exactly when it
\* fits what is left of the budget.
C2_OnlySmallerAfterBudgetSkip ==
  /\ \A j, k \in 1..Len(log) :
       j < k /\ log[j].outcome = "budget" /\ log[k].outcome = "included"
         => log[k].size < log[j].size
  /\ \A k \in 1..Len(log) :
       log[k].outcome \in { "budget", "included" } /\ max_bytes # <<>>
       /\ max_bytes[1] > 0
         => ( log[k].outcome = "included"
              <=> SizesOf(SelectSeq(SubSeq(log, 1, k - 1), IsIncluded))
                    + log[k].size <= max_bytes[1] )

C2_Witness ==
  \E j, k \in 1..Len(log) :
    /\ j < k
    /\ log[j].outcome = "budget"
    /\ log[k].outcome = "included"
    /\ log[k].size > 0

\* C3: total_bytes is the sum of the sizes of the files in included_files;
\* included_files holds exactly the candidates that were accepted, in order,
\* so a skipped candidate is in neither list and adds nothing; the two lists
\* are of one length and the k-th block is labelled with the k-th path's name.
C3_RunningTotal ==
  /\ total_bytes = SumSizes(included_files)
  /\ total_bytes = SizesOf(SelectSeq(log, IsIncluded))
  /\ included_files = PathsOf(SelectSeq(log, IsIncluded))
  /\ Len(formatted_contents) = Len(included_files)
  /\ \A k \in 1..Len(included_files) :
       LET label == <<"F","i","l","e",":"," ">> \o Basename(included_files[k])
                      \o <<"\n">>
       IN  /\ Len(formatted_contents[k]) >= Len(label)
           /\ SubSeq(formatted_contents[k], 1, Len(label)) = label

C3_Witness ==
  /\ Len(included_files) >= 2
  /\ total_bytes > 0
  /\ \E k \in 1..Len(log) : log[k].outcome = "budget"
  /\ \E k \in 1..Len(log) : log[k].outcome = "binary"

\* C4: a candidate file whose lower-cased extension (os.path.splitext's) is in
\* the lower-cased exclusion extensions, or whose base name is an exclusion
\* name, is skipped before anything else looks at it: it is never included,
\* never opened, and nothing is printed about it.
WarningKinds == { "warn_notfound", "warn_nodir", "warn_binary",
                  "warn_encoding", "error_reading", "warn_budget" }

ExcludedByRule(p) ==
  \/ Lower(SplitExt(Basename(p))) \in { Lower(e) : e \in raw_exclude_ext }
  \/ Basename(p) \in exclude_names

C4_ExcludedSilently ==
  \A k \in 1..Len(log) :
    ReachedProcessFile(log[k]) /\ ExcludedByRule(log[k].path)
      => /\ log[k].outcome = "excluded"
         /\ \A m \in 1..Len(included_files) : included_files[m] # log[k].path
         /\ \A m \in 1..Len(stdout) :
              stdout[m].kind \in WarningKinds => stdout[m].arg # log[k].path
         /\ opens[log[k].path] = 0

C4_Witness ==
  /\ max_bytes = <<1>>
  /\ \E k \in 1..Len(log) :
       /\ log[k].outcome = "excluded"
       /\ FileAt(log[k].path).probe = "nul"
  /\ \E k \in 1..Len(log) :
       /\ log[k].outcome = "excluded"
       /\ FileAt(log[k].path).read = "ok"

\* The name ends, in any letter case, with "." and then the entry stripped of
\* a leading ".".
EndsWithDotEntry(name, e) ==
  LET bare == IF e # <<>> /\ Head(e) = "." THEN Tail(e) ELSE e
      dotted == <<".">> \o Lower(bare)
  IN  /\ Len(name) >= Len(dotted)
      /\ Lower(SubSeq(name, Len(name) - Len(dotted) + 1, Len(name))) = dotted

\* C5, as claimed: an exclusion entry given with or without its dot, in any
\* letter case, excludes every file whose name ends in "." and that extension
\* in any letter case; names are matched exactly.
C5_AnySpellingExcludes ==
  \A k \in 1..Len(log) :
    ReachedProcessFile(log[k]) =>
      /\ \A e \in raw_exclude_ext :
           e # <<>> /\ EndsWithDotEntry(Basename(log[k].path), e)
             => log[k].outcome = "excluded"
      /\ Basename(log[k].path) \in exclude_names => log[k].outcome = "excluded"

\* An entry that is a dot followed by characters other than dots matches a
\* name that ends with it in any letter case and has a character other than a
\* dot before it; the empty entry matches a name that has no such ending.
HasNonDot(t) == \E m \in 1..Len(t) : t[m] # "."
HasNoExtension(name) ==
  \A c \in 1..Len(name) :
    name[c] = "." => ~HasNonDot(SubSeq(name, 1, c - 1))
EntryMatches(name, e) ==
  IF e = <<>> THEN HasNoExtension(name)
  ELSE /\ Head(e) = "."
       /\ ~\E m \in 2..Len(e) : e[m] = "."
       /\ Len(name) > Len(e)
       /\ Lower(SubSeq(name, Len(name) - Len(e) + 1, Len(name))) = Lower(e)
       /\ HasNonDot(SubSeq(name, 1, Len(name) - Len(e)))

\* C5, amended: extensions are matched case-insensitively but are not
\* normalised: only an entry typed with its leading dot excludes the files of
\* that extension, in any letter case of entry and name; an entry typed
\* without the dot excludes nothing, and a name with only dots before its last
\* dot has no extension.  Names are matched case-sensitively and exactly.
C5_DottedEntriesExclude ==
  \A k \in 1..Len(log) :
    ReachedProcessFile(log[k]) =>
      ( log[k].outcome = "excluded"
        <=> \/ \E e \in raw_exclude_ext : EntryMatches(Basename(log[k].path), e)
            \/ \E n \in exclude_names : n = Basename(log[k].path) )

C5_Witness ==
  /\ \E k \in 1..Len(log) :
       /\ log[k].outcome = "excluded"
       /\ Basename(log[k].path) = N_B_PNG
  /\ \E k \in 1..Len(log) :
       /\ log[k].outcome = "excluded"
       /\ Basename(log[k].path) = N_c_png
  /\ <<".","P","N","G">> \in raw_exclude_ext

\* C6: included_files is the accepted candidates in the order they were
\* processed; the explicit paths are processed first, in argument order, then
\* the files under each directory argument, in argument order.
IsPrefix(a, b) == Len(a) <= Len(b) /\ SubSeq(b, 1, Len(a)) = a

C6_ResultOrdering ==
  /\ included_files = PathsOf(SelectSeq(log, IsIncluded))
  /\ \A j, k \in 1..Len(log) : j < k => log[j].root <= log[k].root
  /\ \A k \in 1..(i - 1) :
       /\ k <= Len(log)
       /\ log[k].root = 0
       /\ log[k].path = file_paths[k]
  /\ \A k \in 1..Len(log) :
       log[k].root > 0 =>
         /\ k >= i
         /\ i > Len(file_paths)
         /\ log[k].root <= Len(dir_paths)
         /\ IsPrefix(dir_paths[log[k].root], log[k].path)

C6_Witness ==
  \E a, b, c \in 1..Len(log) :
    /\ a < b /\ b < c
    /\ log[a].root = 0 /\ log[b].root = 1 /\ log[c].root = 2
    /\ log[a].outcome = "included"
    /\ log[b].outcome = "included"
    /\ log[c].outcome = "included"

\* Every candidate of the command line, in processing order.
RECURSIVE CandidatesOfDirs(_)
CandidatesOfDirs(dirs) ==
  IF dirs = <<>> THEN <<>>
  ELSE (IF IsDir(Head(dirs)) THEN WalkFiles(Head(dirs)) ELSE <<Head(dirs)>>)
       \o CandidatesOfDirs(Tail(dirs))
AllCandidates == file_paths \o CandidatesOfDirs(dir_paths)

\* The candidate fails: it is missing, or is a file that is not excluded and
\* is binary or unopenable, undecodable or unreadable, or was over the budget.
Fails(rec) ==
  \/ rec.outcome \in { "notfound", "nodir", "budget" }
  \/ /\ IsFile(rec.path)
     /\ ~ExcludedByRule(rec.path)
     /\ FileAt(rec.path).probe # "clean" \/ FileAt(rec.path).read # "ok"

\* The steps the collection has still to take: one to set up, one per
\* explicit path left, one per directory argument left and per file under it,
\* one per file left of the current walk, one to return.
RECURSIVE DirWork(_)
DirWork(dirs) ==
  IF dirs = <<>> THEN 0
  ELSE 1 + (IF IsDir(Head(dirs)) THEN Len(WalkFiles(Head(dirs))) ELSE 0)
         + DirWork(Tail(dirs))
StepsLeft ==
  (IF pc = "start" THEN 2 ELSE IF pc = "collect" THEN 1 ELSE 0)
    + (Len(file_paths) + 1 - i)
    + DirWork(SubSeq(dir_paths, d, Len(dir_paths))) + Len(walk)

\* One of the collector's steps can be taken: the guard of one of its actions
\* holds (each action's effect is defined wherever its guard holds).
CollectorCanStep ==
  \/ pc = "start"
  \/ pc = "collect" /\ i <= Len(file_paths)
  \/ pc = "collect" /\ i > Len(file_paths) /\ walk = <<>> /\ d <= Len(dir_paths)
  \/ pc = "collect" /\ walk # <<>>
  \/ pc = "collect" /\ CollectionOver

\* C7: a failing candidate changes neither the result nor the running total
\* and prints exactly one line, about that candidate; every candidate of the
\* command line is processed whatever failed before it; the collection ends:
\* while it runs the process has not exited and a step is possible, and every
\* step leaves fewer steps to take.
C7_FailuresNeverAbort ==
  /\ [][ Len(log') = Len(log) + 1 /\ Fails(log'[Len(log')])
           => /\ UNCHANGED collected
              /\ Len(stdout') = Len(stdout) + 1
              /\ stdout'[Len(stdout')].kind \in WarningKinds
              /\ stdout'[Len(stdout')].arg = log'[Len(log')].path
              /\ SubSeq(stdout', 1, Len(stdout)) = stdout ]_vars
  /\ [](~Collecting => PathsOf(log) = AllCandidates)
  /\ [](Collecting => StepsLeft > 0 /\ exit_status = <<>> /\ CollectorCanStep)
  /\ [][Collecting => StepsLeft' < StepsLeft]_vars

C7_Witness ==
  /\ ~Collecting
  /\ Len(log) >= 5
  /\ \E k \in 1..Len(log) : log[k].outcome = "notfound"
  /\ \E k \in 1..Len(log) : log[k].outcome = "binary"
  /\ \E k \in 2..Len(log) :
       /\ log[k].outcome = "included"
       /\ \E j \in 1..(k - 1) : log[j].outcome \in { "decode", "error", "budget" }

\* C8, as claimed: no file is opened for reading more than once in a run.
C8_OpenedAtMostOnce == \A p \in FilePaths : opens[p] <= 1

\* C8, amended: each time a candidate is processed it is opened at most twice,
\* once by the binary probe and once by the text read, and not at all when it
\* is excluded; the dry-run summary opens every included file once more; the
\* API path opens none.  A path that is a candidate twice is processed twice.
NotExcluded(rec) == ReachedProcessFile(rec) /\ rec.outcome # "excluded"
C8_OpenedTwicePerCandidate ==
  \A p \in FilePaths :
    opens[p] <= 2 * Times(p, NotExcluded)
                  + (IF summary # <<>> THEN Times(p, IsIncluded) ELSE 0)

C8_Witness ==
  \E p \in FilePaths :
    /\ Times(p, IsIncluded) = 2
    /\ summary # <<>>
    /\ opens[p] = 6

\* C9: the key is read and the client configured only without --dry-run and
\* only once the collection is over; with --dry-run neither happens, no
\* request is sent, and the summary ends the run; when the key is missing or
\* the configuration raises, the process exits with status 1, no request is
\* sent and no output file is written.
C9_CredentialAfterCollection ==
  /\ api_key # "unread" \/ configured # "uncalled" \/ api_calls > 0
       => ~dry_run /\ ~Collecting /\ CollectionOver
  /\ dry_run => api_key = "unread" /\ configured = "uncalled" /\ api_calls = 0
  /\ summary # <<>> => dry_run /\ pc = "done" /\ exit_status = <<0>>
  /\ api_key \in { "absent", "empty" } \/ configured = "raised"
       => /\ pc = "done"
          /\ exit_status = <<1>>
          /\ api_calls = 0
          /\ written = <<>>
  /\ api_calls > 0 \/ written # <<>>
       => api_key = "present" /\ configured = "ok"

C9_Witness ==
  /\ api_key = "absent"
  /\ exit_status = <<1>>
  /\ output # <<>>
  /\ Len(log) >= 2

\* C10: the block of a file.
BlockOf(name, content) ==
  <<"F","i","l","e",":"," ">> \o name \o <<"\n">> \o <<"\"","\"","\"">>
    \o <<"\n">> \o content \o <<"\n">> \o <<"\"","\"","\"">>

\* The question, then for each of the first k included files two newlines and
\* its block.
RECURSIVE PayloadUpTo(_)
PayloadUpTo(k) ==
  IF k = 0 THEN question
  ELSE PayloadUpTo(k - 1) \o <<"\n","\n">>
         \o BlockOf(Basename(included_files[k]), FileAt(included_files[k]).content)

\* C10: the payload is the question alone when nothing was included, and
\* otherwise the question, two newlines, and the included files' blocks in
\* order with two newlines between them; there are as many blocks as files.
C10_PromptAssembly ==
  ~Collecting =>
    /\ final_prompt = PayloadUpTo(Len(included_files))
    /\ included_files = <<>> => final_prompt = question
    /\ Len(formatted_contents) = Len(included_files)
    /\ \A k \in 1..Len(included_files) :
         formatted_contents[k] =
           BlockOf(Basename(included_files[k]), FileAt(included_files[k]).content)

C10_Witness ==
  /\ ~Collecting
  /\ Len(included_files) >= 2
  /\ question = Q_empty
  /\ \E k \in 1..Len(included_files) : Basename(included_files[k]) # included_files[k]

====
